---- MODULE Spec2Model ----
(***************************************************************************)
(* A state-machine model of the DSConvE training script (src/train.py):    *)
(* main() runs args.epochs epochs, each one train() pass, valid() on the   *)
(* training split, valid() on the held-out split and a checkpoint write.   *)
(*                                                                         *)
(* The network itself (src/model.py) is a learned real-valued function;    *)
(* its outputs are drawn nondeterministically: a non-negative loss value   *)
(* per training batch and one score per entity per evaluated query.        *)
(* Real numbers are kept exact as scaled integers or as num/den records.   *)
(* The ranks list of valid() is held as a bag: only its means are read.    *)
(*                                                                         *)
(* One next-state relation, five families of runs:                         *)
(*   Spec      any number of epochs over small splits                      *)
(*   SpecLong  long runs, one query per split                              *)
(*   SpecTrain two epochs, training splits of every size                   *)
(*   SpecValid one epoch, held-out splits of every size                    *)
(*   FairSpec  the smallest runs, with the fairness of a running thread    *)
(***************************************************************************)
EXTENDS Integers, Sequences, FiniteSets, Bags, TLC

\* ---------------------------------------------------------------- bounds
MaxEpochs == 2
MaxBatchSize == 2
MaxData == 3
MaxLoss == 2
\* epochs of the long runs, enough for checkpoint names of 10 and above
MaxLongRun == 11
\* len(data.e_to_index), the size of the vocabulary
NumEntities == 3

\* the entity indices: the values of data.e_to_index
Entities == 0..(NumEntities - 1)

\* --label-smooth is a float, default .1: modelled as label_smooth / EpsDen
EpsDen == 10
DefaultSmooth == 1
LabelSmooths == {0, DefaultSmooth}

\* a loss value L is held as L * LossScale, so that the repeated *0.9 / *0.1
\* of one epoch (at most MaxData batches) stays exact
LossScale == 10 ^ MaxData
LossValues == {l * LossScale : l \in 0..MaxLoss}
\* the score levels the entities of one query may get: two levels put an
\* object above, below or level with any of the other entities
ScoreValues == {0, 1}
\* what a row of an uninitialised torch.LongTensor may hold: zeros or stale
\* ones (the code overwrites it before it reads it)
GarbageValues == {0, 1}

VARIABLES
    epochs, batch_size, label_smooth,   \* args
    train_y, valid_y,                   \* data.y of the two splits
    pc, epoch, log_decs,                \* position in main()/train()/valid()
    training,                           \* ds_conv_e.training, the mode flag
    remaining, batch,                   \* DataLoader iterator, current batch
    moving_loss, loss,                  \* train() locals
    y_multihot, y_smooth,
    i, output_i,                        \* valid() locals
    ranks, mr, mrr,                     \* (ranks: the list, as a bag)
    files,                              \* the checkpoint directory
    nbatch, prev_moving_loss,           \* history: batches seen, avg before
    call, trace,                        \* history: last model call, phases
    rank_i, ranked                      \* history: ranks appended for batch
                                        \* element i, bag of pairs ranked

vars == <<epochs, batch_size, label_smooth, train_y, valid_y, pc, epoch,
          log_decs, training, remaining, batch, moving_loss, loss,
          y_multihot, y_smooth, i, output_i, ranks, mr, mrr,
          files, nbatch, prev_moving_loss, call, trace, rank_i, ranked>>

\* ---------------------------------------------------------------- helpers
Range(s) == {s[k] : k \in DOMAIN s}

RECURSIVE SumSeq(_)
SumSeq(s) == IF s = <<>> THEN 0 ELSE Head(s) + SumSeq(Tail(s))

RECURSIVE SeqToBag(_)
SeqToBag(s) == IF s = <<>> THEN EmptyBag
               ELSE SetToBag({Head(s)}) (+) SeqToBag(Tail(s))

\* the elements of a bag of integers, each as often as it is in the bag
RECURSIVE BagToSeq(_)
BagToSeq(b) ==
    IF DOMAIN b = {} THEN <<>>
    ELSE LET m == CHOOSE x \in DOMAIN b : \A y \in DOMAIN b : x <= y
         IN <<m>> \o BagToSeq(b (-) SetToBag({m}))

Min(a, b) == IF a < b THEN a ELSE b

NoRat == [num |-> 0, den |-> 0]

\* ------------------------------------------------------- the data loader
\* data.y: one list of true-object indices per (subject, relation) query
Example(k) == IF k = 1 THEN <<0, 1>> ELSE << k % NumEntities >>
DatasetsUpTo(m) == {[k \in 1..n |-> Example(k)] : n \in 1..m}

\* DataLoader(shuffle=True): an epoch delivers the examples in a random order
Shuffles(n) ==
    {p \in [1..n -> 1..n] : \A x, y \in 1..n : x # y => p[x] # p[y]}

\* DataLoader(batch_size=b): the next b of them; the last batch may be shorter
NextBatch(rem, b) == SubSeq(rem, 1, Min(b, Len(rem)))
Rest(rem, b) == SubSeq(rem, Min(b, Len(rem)) + 1, Len(rem))

\* collate_train / collate_valid: the true-object lists of the batch's
\* elements, in batch order
collate_train(b) == [r \in DOMAIN b |-> train_y[b[r]]]
collate_valid(y, b) == [r \in DOMAIN b |-> y[b[r]]]

\* ------------------------------------------------------------- train()
\* torch.LongTensor(rows, cols): allocated, not initialised
LongTensor(rows, cols) ==
    {[r \in 1..rows |-> [c \in 1..cols |-> g[r]]] : g \in [1..rows -> GarbageValues]}

\* lines 47-48: a batch of another size gets a buffer of its own size
Resize(buf, s_size, fresh) == IF s_size # batch_size THEN fresh ELSE buf

\* line 50: y_multihot.zero_()
\* (variant: the buffer is left as it was)
ZeroMutant(buf) == buf
Zero(buf) == [r \in DOMAIN buf |-> [c \in DOMAIN buf[r] |-> 0]]

\* line 51: y_multihot.scatter_(1, os, 1)
Scatter(buf, os) ==
    [r \in DOMAIN buf |->
        [c \in DOMAIN buf[r] |->
            IF r \in DOMAIN os /\ (c - 1) \in Range(os[r]) THEN 1
            ELSE buf[r][c]]]

\* line 52, in units of 1 / (EpsDen * NumEntities):
\*   (1 - eps) * y + eps / num_entities
\* (variant: eps is not divided by num_entities)
SmoothMutant(y) ==
    [r \in DOMAIN y |-> [c \in DOMAIN y[r] |->
        (EpsDen - label_smooth) * NumEntities * y[r][c]
            + label_smooth * NumEntities]]
Smooth(y) ==
    [r \in DOMAIN y |-> [c \in DOMAIN y[r] |->
        (EpsDen - label_smooth) * NumEntities * y[r][c] + label_smooth]]

\* lines 62-65
UpdateMovingLoss(m, l) == IF m = 0 THEN l ELSE (m * 9 + l) \div 10

\* ------------------------------------------------------------- valid()
\* line 79 / line 42: ds_conv_e.train(flag)
\* (variant: valid() leaves the flag as it finds it)
EvalModeMutant(flag) == flag
EvalMode(flag) == FALSE
TrainMode(flag) == TRUE

\* one row of the score matrix: the score of entity e is at e + 1
ScoreVectors == [1..NumEntities -> ScoreValues]

\* every order of the entity indices (the union makes it an enumerated set)
EntityOrders ==
    {} \cup {p \in [1..NumEntities -> Entities] :
                \A x, y \in 1..NumEntities : x # y => p[x] # p[y]}

\* line 86: output[i].topk(n) returns the indices by descending score; the
\* order among equal scores is whatever the sort produces
\* (variant: ascending order)
TopKMutant(scores) ==
    {p \in EntityOrders :
        \A x \in 1..(NumEntities - 1) : scores[p[x] + 1] <= scores[p[x + 1] + 1]}
TopK(scores) ==
    {p \in EntityOrders :
        \A x \in 1..(NumEntities - 1) : scores[p[x] + 1] >= scores[p[x + 1] + 1]}

\* line 88: (top_indices == o).max(dim=0): the 0-based position of o
Position(top, o) == (CHOOSE x \in DOMAIN top : top[x] = o) - 1

\* line 89: rank.data + 1
\* (variant: the 0-based position itself)
RankOfMutant(top, o) == Position(top, o)
RankOf(top, o) == Position(top, o) + 1

\* line 85: range(min(batch_size, s.size()[0]))
\* (variant: the last element of a batch is left out)
ElementCountMutant(s_size) == Min(batch_size, s_size) - 1
ElementCount(s_size) == Min(batch_size, s_size)

\* lines 92-93 on exact rationals
RatAdd(a, b) == [num |-> a.num * b.den + b.num * a.den, den |-> a.den * b.den]
RECURSIVE RatSum(_)
RatSum(s) == IF s = <<>> THEN [num |-> 0, den |-> 1]
             ELSE RatAdd(Head(s), RatSum(Tail(s)))
Mean(s) == LET t == RatSum(s) IN [num |-> t.num, den |-> t.den * Len(s)]
Reciprocal(rs) == [k \in DOMAIN rs |-> [num |-> 1, den |-> rs[k]]]
AsRat(rs) == [k \in DOMAIN rs |-> [num |-> rs[k], den |-> 1]]

\* -------------------------------------------------------------- main()
\* str(n): the decimal digits of n >= 0
RECURSIVE Str(_)
Str(n) == IF n < 10 THEN <<n>> ELSE Append(Str(n \div 10), n % 10)

\* s.zfill(width)
RECURSIVE zfill(_, _)
zfill(s, width) == IF Len(s) >= width THEN s ELSE zfill(<<0>> \o s, width)

\* line 159: 'checkpoint_{}.model'.format(str(epoch + 1).zfill(2))
\* (variant: one name for every epoch)
CheckpointNameMutant(e) == <<0, 0>>
CheckpointName(e) == zfill(Str(e + 1), 2)

\* open(name, 'wb') + torch.save: creates or truncates that one file
WriteFile(fs, name, content) ==
    [f \in DOMAIN fs \cup {name} |-> IF f = name THEN content ELSE fs[f]]

\* line 154: for epoch in trange(args.epochs)
\* (variant: the loop stops one epoch early)
LoopContinuesMutant(e) == e < epochs - 1
LoopContinues(e) == e < epochs

\* ------------------------------------------------------------------ Init
InitWith(Es, Bs, Ls, Ts, Vs) ==
    /\ epochs \in Es
    /\ batch_size \in Bs
    /\ label_smooth \in Ls
    /\ train_y \in Ts
    /\ valid_y \in Vs
    /\ pc = "main_loop"
    /\ epoch = 0
    /\ log_decs = ""
    /\ training = TRUE
    /\ remaining = <<>>
    /\ batch = <<>>
    /\ moving_loss = 0
    /\ loss = 0
    /\ y_multihot = <<>>
    /\ y_smooth = <<>>
    /\ i = 0
    /\ output_i = <<>>
    /\ ranks = EmptyBag
    /\ rank_i = <<>>
    /\ mr = NoRat
    /\ mrr = NoRat
    /\ files = <<>>
    /\ nbatch = 0
    /\ prev_moving_loss = 0
    /\ call = [fn |-> "none", training |-> TRUE]
    /\ ranked = EmptyBag
    /\ trace = <<>>

\* runs of any length over small splits
Init ==
    InitWith(0..MaxEpochs, 1..MaxBatchSize, {DefaultSmooth},
             DatasetsUpTo(2), DatasetsUpTo(1))

\* runs of any length with one query per split, one per batch
InitSmall ==
    InitWith(0..MaxEpochs, {1}, {DefaultSmooth},
             DatasetsUpTo(1), DatasetsUpTo(1))

\* long runs with one query per split
InitLong ==
    InitWith(0..MaxLongRun, {1}, {DefaultSmooth},
             DatasetsUpTo(1), DatasetsUpTo(1))

\* two epochs over training splits of every size
InitTrain ==
    InitWith({2}, 1..MaxBatchSize, LabelSmooths,
             DatasetsUpTo(MaxData), DatasetsUpTo(1))

\* one epoch, evaluated on held-out splits of every size
InitValid ==
    InitWith({1}, 1..MaxBatchSize, {DefaultSmooth},
             DatasetsUpTo(1), DatasetsUpTo(MaxData))

args == <<epochs, batch_size, label_smooth, train_y, valid_y>>
train_locals == <<moving_loss, loss, y_multihot, y_smooth, nbatch,
                  prev_moving_loss>>
valid_locals == <<i, output_i, ranks, mr, mrr, rank_i, ranked>>

\* --------------------------------------------------------------- actions
\* main line 154-155 and train() lines 35-43
TrainBegin ==
    /\ pc = "main_loop"
    /\ LoopContinues(epoch)
    /\ pc' = "train_loop"
    /\ remaining' \in Shuffles(Len(train_y))
    /\ moving_loss' = 0
    /\ training' = TrainMode(training)
    /\ y_multihot' \in LongTensor(batch_size, NumEntities)
    /\ UNCHANGED <<args, epoch, log_decs, batch, loss, y_smooth, nbatch,
                   prev_moving_loss, valid_locals, files, call, trace>>

\* main line 154: the epoch range is exhausted
MainExit ==
    /\ pc = "main_loop"
    /\ ~LoopContinues(epoch)
    /\ pc' = "done"
    /\ UNCHANGED <<args, epoch, log_decs, training, remaining, batch,
                   train_locals, valid_locals, files, call, trace>>

\* train() lines 44-68: one batch
TrainBatch ==
    /\ pc = "train_loop"
    /\ remaining # <<>>
    /\ \E fresh \in LongTensor(Len(NextBatch(remaining, batch_size)), NumEntities) :
       \E l \in LossValues :
          LET b == NextBatch(remaining, batch_size)
              os == collate_train(b)
              buf == Scatter(Zero(Resize(y_multihot, Len(b), fresh)), os)
          IN /\ batch' = b
             /\ remaining' = Rest(remaining, batch_size)
             /\ y_multihot' = buf
             /\ y_smooth' = Smooth(buf)
             /\ call' = [fn |-> "forward", training |-> training]
             /\ loss' = l
             /\ prev_moving_loss' = moving_loss
             /\ moving_loss' = UpdateMovingLoss(moving_loss, l)
             /\ nbatch' = nbatch + 1
    /\ UNCHANGED <<args, pc, epoch, log_decs, training, valid_locals, files,
                   trace>>

\* train() lines 70-72 and the return; main line 156 calls valid()
TrainEnd ==
    /\ pc = "train_loop"
    /\ remaining = <<>>
    /\ pc' = "valid_begin"
    /\ log_decs' = "train"
    /\ trace' = Append(trace, "train")
    /\ batch' = <<>>
    /\ moving_loss' = 0
    /\ loss' = 0
    /\ y_multihot' = <<>>
    /\ y_smooth' = <<>>
    /\ nbatch' = 0
    /\ prev_moving_loss' = 0
    /\ UNCHANGED <<args, epoch, training, remaining, valid_locals, files,
                   call>>

data_y == IF log_decs = "train" THEN train_y ELSE valid_y

\* valid() lines 76-80
ValidBegin ==
    /\ pc = "valid_begin"
    /\ pc' = "valid_loop"
    /\ remaining' \in Shuffles(Len(data_y))
    /\ training' = EvalMode(training)
    /\ ranks' = EmptyBag
    /\ rank_i' = <<>>
    /\ ranked' = EmptyBag
    /\ UNCHANGED <<args, epoch, log_decs, batch, train_locals, i, output_i,
                   mr, mrr, files, call, trace>>

\* valid() lines 81-83: fetch a batch and score it
ValidBatch ==
    /\ pc = "valid_loop"
    /\ remaining # <<>>
    /\ batch' = NextBatch(remaining, batch_size)
    /\ remaining' = Rest(remaining, batch_size)
    /\ call' = [fn |-> "test", training |-> training]
    /\ i' = 0
    /\ output_i' = <<>>
    /\ rank_i' = <<>>
    /\ pc' = "valid_elem"
    /\ UNCHANGED <<args, epoch, log_decs, training, train_locals, ranks, mr,
                   mrr, ranked, files, trace>>

\* the ranks line 87-89 appends for the true objects os of one batch element
RanksOf(top, os) == [k \in DOMAIN os |-> RankOf(top, os[k])]

\* lines 86-89 for every score row and object list of the data: the triples
\* <<os, scores, ranks appended>>, over every order topk may return
RankOutcomes ==
    {} \cup UNION {{<<os, scores, RanksOf(top, os)>> : top \in TopK(scores)} :
                      os \in {Example(k) : k \in 1..MaxData},
                      scores \in ScoreVectors}

\* valid() lines 85-89: batch element i (its row of the score matrix is
\* drawn here, where it is first read)
ValidElement ==
    /\ pc = "valid_elem"
    /\ i < ElementCount(Len(batch))
    /\ LET os == collate_valid(data_y, batch)[i + 1]
       IN \E t \in RankOutcomes :
             /\ t[1] = os
             /\ output_i' = t[2]
             /\ rank_i' = t[3]
             /\ ranks' = ranks (+) SeqToBag(t[3])
             /\ ranked' = ranked (+)
                    SeqToBag([k \in DOMAIN os |-> <<batch[i + 1], os[k]>>])
    /\ i' = i + 1
    /\ UNCHANGED <<args, pc, epoch, log_decs, training, remaining, batch,
                   train_locals, mr, mrr, files, call, trace>>

\* valid() line 85: the element range of this batch is exhausted
ValidBatchEnd ==
    /\ pc = "valid_elem"
    /\ ~(i < ElementCount(Len(batch)))
    /\ pc' = "valid_loop"
    /\ UNCHANGED <<args, epoch, log_decs, training, remaining, batch,
                   train_locals, valid_locals, files, call, trace>>

\* valid() lines 91-93
ValidAggregate ==
    /\ pc = "valid_loop"
    /\ remaining = <<>>
    /\ mr' = Mean(AsRat(BagToSeq(ranks)))
    /\ mrr' = Mean(Reciprocal(BagToSeq(ranks)))
    /\ pc' = "valid_log"
    /\ UNCHANGED <<args, epoch, log_decs, training, remaining, batch,
                   train_locals, i, output_i, ranks, rank_i, ranked,
                   files, call, trace>>

\* valid() lines 95-97 and the return; main line 157 or line 159
ValidEnd ==
    /\ pc = "valid_log"
    /\ trace' = Append(trace, "valid " \o log_decs)
    /\ IF log_decs = "train"
       THEN pc' = "valid_begin" /\ log_decs' = "valid"
       ELSE pc' = "checkpoint" /\ log_decs' = ""
    /\ batch' = <<>>
    /\ i' = 0
    /\ output_i' = <<>>
    /\ ranks' = EmptyBag
    /\ rank_i' = <<>>
    /\ ranked' = EmptyBag
    /\ mr' = NoRat
    /\ mrr' = NoRat
    /\ UNCHANGED <<args, epoch, training, remaining, train_locals, files,
                   call>>

\* main lines 159-160, then the next value of the epoch range
Checkpoint ==
    /\ pc = "checkpoint"
    /\ files' = WriteFile(files, CheckpointName(epoch), epoch + 1)
    /\ trace' = Append(trace, "checkpoint")
    /\ epoch' = epoch + 1
    /\ pc' = "main_loop"
    /\ UNCHANGED <<args, log_decs, training, remaining, batch, train_locals,
                   valid_locals, call>>

Next ==
    \/ TrainBegin
    \/ MainExit
    \/ TrainBatch
    \/ TrainEnd
    \/ ValidBegin
    \/ ValidBatch
    \/ ValidElement
    \/ ValidBatchEnd
    \/ ValidAggregate
    \/ ValidEnd
    \/ Checkpoint

Spec == Init /\ [][Next]_vars
SpecTrain == InitTrain /\ [][Next]_vars
SpecValid == InitValid /\ [][Next]_vars
SpecLong == InitLong /\ [][Next]_vars

\* the loops are over finite iterators and nothing blocks: a run that is
\* not killed keeps taking steps
FairSpec == InitSmall /\ [][Next]_vars /\ WF_vars(Next)

\* ================================================================ claims

\* ---- C1: in train(), the moving average equals the first loss after the
\* first batch of an epoch and 0.9 * avg + 0.1 * loss after every later
\* batch, for every sequence of non-negative losses (zero included)
C1_MovingAverageExact ==
    (pc = "train_loop" /\ nbatch >= 1) =>
        IF nbatch = 1 THEN moving_loss = loss
        ELSE 10 * moving_loss = 9 * prev_moving_loss + loss

\* the two-digit name of epoch n < 100
TwoDigits(n) == <<n \div 10, n % 10>>
\* ---- C2: after n completed epochs the checkpoints 01 .. n all exist, one
\* file per epoch, each still holding the snapshot of its own epoch
C2_CheckpointsKept ==
    /\ \A n \in 1..epoch :
          /\ TwoDigits(n) \in DOMAIN files
          /\ files[TwoDigits(n)] = n
    /\ Cardinality(DOMAIN files) = epoch
C2_Witness ==
    /\ epoch >= 10
    /\ {TwoDigits(1), TwoDigits(9), TwoDigits(10)} \subseteq DOMAIN files

\* ---- C3: after every training batch the multi-hot target has one row per
\* batch element, and row r holds 1 exactly at the true-object indices of
\* element r and 0 elsewhere
C3_MultiHotExact ==
    (pc = "train_loop" /\ nbatch >= 1) =>
        /\ Len(y_multihot) = Len(batch)
        /\ \A r \in 1..Len(batch) :
              /\ Len(y_multihot[r]) = NumEntities
              /\ \A e \in Entities :
                    y_multihot[r][e + 1] =
                        IF e \in Range(collate_train(batch)[r]) THEN 1 ELSE 0
\* a short final batch after a full one, in the epoch after an epoch that
\* ended the same way
C3_Witness ==
    /\ pc = "train_loop"
    /\ epoch >= 1
    /\ nbatch >= 2
    /\ Len(batch) < batch_size

\* how many entities score above / the same as object o; the true objects of
\* the batch element ranked last
Greater(scores, o) == Cardinality({e \in Entities : scores[e + 1] > scores[o + 1]})
Equal(scores, o) == Cardinality({e \in Entities : scores[e + 1] = scores[o + 1]})
LastObjects == collate_valid(data_y, batch)[i]
\* ---- C4 as claimed: every recorded rank is 1 + the number of entities
\* scored strictly higher than the object, equal scores included
C4_RankIsOnePlusGreater ==
    (rank_i # <<>>) =>
        \A k \in DOMAIN rank_i :
            rank_i[k] = 1 + Greater(output_i, LastObjects[k])

\* ---- C4 as amended: the rank is at least 1 + the number of entities scored
\* strictly higher and at most the number scored at least as high, so it is
\* 1 + count(greater) whenever no other entity has the object's score
C4_RankWithinTies ==
    (rank_i # <<>>) =>
        \A k \in DOMAIN rank_i :
            LET o == LastObjects[k]
            IN /\ rank_i[k] >= 1 + Greater(output_i, o)
               /\ rank_i[k] <= Greater(output_i, o) + Equal(output_i, o)
\* an object ranked below an entity of equal score
C4_Witness ==
    /\ rank_i # <<>>
    /\ \E k \in DOMAIN rank_i :
          /\ Equal(output_i, LastObjects[k]) >= 2
          /\ rank_i[k] > 1 + Greater(output_i, LastObjects[k])

\* ---- C5: every rank valid() appends is in 1 .. num_entities
C5_RankInRange ==
    /\ \A r \in DOMAIN ranks : r \in 1..NumEntities
    /\ \A k \in DOMAIN rank_i : rank_i[k] \in 1..NumEntities
C5_Witness ==
    /\ {1, NumEntities} \subseteq DOMAIN ranks
    /\ log_decs = "valid"

\* the phases of n whole epochs
RECURSIVE Expected(_)
Expected(n) ==
    IF n = 0 THEN <<>>
    ELSE Expected(n - 1) \o <<"train", "valid train", "valid valid", "checkpoint">>
IsPrefix(s, t) == Len(s) <= Len(t) /\ s = SubSeq(t, 1, Len(s))
\* ---- C6: a run executes exactly args.epochs epochs, each one train, valid
\* on the training split, valid on the held-out split, checkpoint, in this
\* order, and then terminates
C6_ExactlyEpochs ==
    /\ [](IsPrefix(trace, Expected(epochs)))
    /\ [](pc = "done" => trace = Expected(epochs))
    /\ <>(pc = "done")
C6_Witness ==
    /\ pc = "done"
    /\ epochs = MaxEpochs
    /\ Len(trace) = 4 * MaxEpochs

\* ---- C7: every forward pass of train() runs in training mode and every
\* scoring call of valid() in inference mode
C7_ModePerCall ==
    /\ call.fn = "forward" => call.training = TRUE
    /\ call.fn = "test" => call.training = FALSE
\* a training forward pass after the evaluations of an earlier epoch
C7_Witness ==
    /\ epoch >= 1
    /\ pc = "train_loop"
    /\ call.fn = "forward"

Ones(row) == Cardinality({c \in DOMAIN row : row[c] = 1})
\* ---- C8: in the smoothed target every zero entry is eps / num_entities,
\* every one entry (1 - eps) + eps / num_entities, and a row with k ones
\* sums to k * (1 - eps) + eps   (entries in units of 1/(EpsDen*NumEntities))
C8_SmoothedTarget ==
    (pc = "train_loop" /\ nbatch >= 1) =>
        \A r \in DOMAIN y_multihot :
            /\ \A c \in DOMAIN y_multihot[r] :
                  /\ y_multihot[r][c] = 0 => y_smooth[r][c] = label_smooth
                  /\ y_multihot[r][c] = 1 =>
                        y_smooth[r][c] =
                            (EpsDen - label_smooth) * NumEntities + label_smooth
            /\ SumSeq(y_smooth[r]) =
                  (Ones(y_multihot[r]) * (EpsDen - label_smooth) + label_smooth)
                      * NumEntities
C8_Witness ==
    /\ pc = "train_loop"
    /\ nbatch >= 1
    /\ label_smooth = DefaultSmooth
    /\ \E r \in DOMAIN y_multihot : Ones(y_multihot[r]) = 2

\* the (query, true object) pairs of a split; sums over a bag of ranks
AllPairs(y) == UNION {{<<q, y[q][k]>> : k \in DOMAIN y[q]} : q \in DOMAIN y}
RECURSIVE Factorial(_)
Factorial(n) == IF n = 0 THEN 1 ELSE n * Factorial(n - 1)
RankTotal(b) == SumSeq([r \in 1..NumEntities |-> r * CopiesIn(r, b)])
\* the sum of 1 / rank, in units of 1 / NumEntities!
ReciprocalTotal(b) ==
    SumSeq([r \in 1..NumEntities |-> (Factorial(NumEntities) \div r) * CopiesIn(r, b)])
\* ---- C9: one call of valid() records one rank per (query, true object)
\* pair of the split, and reports the mean of the ranks and the mean of
\* their reciprocals; ranks 1, 2, 4 give 7/3 and 7/12
C9_OneRankPerPair ==
    /\ (pc = "valid_log") =>
          LET n == BagCardinality(ranks)
          IN /\ ranked = SetToBag(AllPairs(data_y))
             /\ n = Cardinality(AllPairs(data_y))
             /\ mr.den > 0 /\ mrr.den > 0
             /\ mr.num * n = RankTotal(ranks) * mr.den
             /\ mrr.num * n * Factorial(NumEntities) =
                    ReciprocalTotal(ranks) * mrr.den
    /\ LET m == Mean(AsRat(<<1, 2, 4>>))
           rr == Mean(Reciprocal(<<1, 2, 4>>))
       IN /\ m.num * 3 = 7 * m.den
          /\ rr.num * 12 = 7 * rr.den
\* a split whose final batch is short, with three different ranks recorded
C9_Witness ==
    /\ pc = "valid_log"
    /\ log_decs = "valid"
    /\ Len(valid_y) = 3
    /\ batch_size = 2
    /\ {1, 2, 3} \subseteq DOMAIN ranks
====
